---- MODULE Spec2Model ----
(***************************************************************************)
(* CascadedNet / BaseNet of lib/nets.py as a state machine.                *)
(*                                                                         *)
(* A tensor is a record [ok, cplx, ch, fr, tm, dat]: ch, fr, tm are the    *)
(* extents of the channel, frequency-bin and time-frame axes (axes 1, 2    *)
(* and 3 of the (B, C, F, T) layout; the batch axis is carried through     *)
(* every operation untouched and is left out), dat[c][f][t] is the element *)
(* and cplx tells whether elements are complex (pairs <<re, im>>) or real  *)
(* (integers on a fixed-point grid).  A failed operation yields            *)
(* [ok |-> FALSE, why |-> ...] in place of a tensor.                       *)
(***************************************************************************)
EXTENDS Integers, Sequences, FiniteSets, TLC

\* ---------------------------------------------------------------- bounds
MaxHalfNfft == 5   \* n_fft ranges over the even numbers 4..2*MaxHalfNfft
MaxNout == 7       \* nout ranges over 4..MaxNout
MaxT    == 129     \* longest input, in time frames
MaxTPar == 2       \* longest input of the concurrent evaluation
ValR    == 2       \* real values lie on the grid -ValR..ValR
Scale   == 2       \* fixed-point value of 1.0 for masks

\* ------------------------------------------------------- program constants
Offset          == 64     \* self.offset
DefaultNoutLstm == 128    \* nout_lstm=128
Eps             == 1      \* eps of bounded_mask, one grid unit

\* ------------------------------------------------------------- arithmetic
Min(a, b) == IF a < b THEN a ELSE b
Max(a, b) == IF a > b THEN a ELSE b
CeilDiv(a, b) == (a + b - 1) \div b
Wrap(v)   == ((v + ValR) % (2 * ValR + 1)) - ValR

\* ----------------------------------------------------------------- tensors
None      == [ok |-> FALSE, why |-> "none"]
Fail(w)   == [ok |-> FALSE, why |-> w]

\* the elements, held as nested sequences: channel, bin, frame
Stored(dat) ==
    [c \in DOMAIN dat |-> [f \in DOMAIN dat[c] |-> dat[c][f] \o <<>>] \o <<>>] \o <<>>

Tensor(cplx, ch, fr, tm, dat) ==
    [ok |-> TRUE, cplx |-> cplx, ch |-> ch, fr |-> fr, tm |-> tm, dat |-> Stored(dat)]

\* Python's normalisation of a slice bound i on an axis of length n
SliceIdx(i, n) == IF i < 0 THEN Max(i + n, 0) ELSE Min(i, n)

\* t[:, :, start:stop]
SliceFreq(t, start, stop) ==
    LET a == SliceIdx(start, t.fr)
        b == SliceIdx(stop, t.fr)
        n == Max(b - a, 0)
    IN  Tensor(t.cplx, t.ch, n, t.tm,
               [c \in 1..t.ch |-> [f \in 1..n |-> t.dat[c][a + f]]])

\* t[:, :, :, start:stop]
SliceTime(t, start, stop) ==
    LET a == SliceIdx(start, t.tm)
        b == SliceIdx(stop, t.tm)
        n == Max(b - a, 0)
    IN  Tensor(t.cplx, t.ch, t.fr, n,
               [c \in 1..t.ch |-> [f \in 1..t.fr |-> [k \in 1..n |-> t.dat[c][f][a + k]]]])

\* t[:, start:stop]
SliceChan(t, start, stop) ==
    LET a == SliceIdx(start, t.ch)
        b == SliceIdx(stop, t.ch)
        n == Max(b - a, 0)
    IN  Tensor(t.cplx, n, t.fr, t.tm, [c \in 1..n |-> t.dat[a + c]])

\* torch.cat([a, b], dim=1): the other axes must agree
ChanCat(a, b) ==
    IF ~a.ok THEN a ELSE IF ~b.ok THEN b
    ELSE IF a.fr # b.fr \/ a.tm # b.tm \/ a.cplx # b.cplx THEN Fail("shape")
    ELSE Tensor(a.cplx, a.ch + b.ch, a.fr, a.tm,
                [c \in 1..(a.ch + b.ch) |->
                    IF c <= a.ch THEN a.dat[c] ELSE b.dat[c - a.ch]])

\* torch.cat([a, b], dim=2): the other axes must agree
FreqCat(a, b) ==
    IF ~a.ok THEN a ELSE IF ~b.ok THEN b
    ELSE IF a.ch # b.ch \/ a.tm # b.tm \/ a.cplx # b.cplx THEN Fail("shape")
    ELSE Tensor(a.cplx, a.ch, a.fr + b.fr, a.tm,
                [c \in 1..a.ch |-> [f \in 1..(a.fr + b.fr) |->
                    IF f <= a.fr THEN a.dat[c][f] ELSE b.dat[c][f - a.fr]]])

\* ------------------------------------------------------------------ layers
\* lib/layers.py: the extents each block produces and the channel count it
\* accepts, and a fixed stand-in for its learned parameters.

Shape(ch, fr, tm) == [ok |-> TRUE, ch |-> ch, fr |-> fr, tm |-> tm]

\* standard convolution arithmetic on one axis
ConvExtent(h, ksize, stride, pad) == ((h + 2 * pad - ksize) \div stride) + 1

\* Conv2DBNActiv(nin, nout, ksize, stride, pad)
Conv2DBNActiv(nin, nout, ksize, stride, pad) ==
    [nin |-> nin, nout |-> nout, ksize |-> ksize, stride |-> stride, pad |-> pad]

Conv2DBNActivCall(cv, x) ==
    IF ~x.ok THEN x
    ELSE IF x.ch # cv.nin \/ cv.nin < 1 \/ cv.nout < 1 THEN Fail("shape")
    ELSE IF x.fr + 2 * cv.pad < cv.ksize \/ x.tm + 2 * cv.pad < cv.ksize THEN Fail("shape")
    ELSE Shape(cv.nout, ConvExtent(x.fr, cv.ksize, cv.stride, cv.pad),
                        ConvExtent(x.tm, cv.ksize, cv.stride, cv.pad))

\* Encoder(nin, nout, ksize, stride, pad): a stride-1 block, then a strided one
Encoder(nin, nout, ksize, stride, pad) ==
    [conv1 |-> Conv2DBNActiv(nin, nout, ksize, 1, pad),
     conv2 |-> Conv2DBNActiv(nout, nout, ksize, stride, pad),
     nin |-> nin, nout |-> nout]

EncoderCall(en, x) == Conv2DBNActivCall(en.conv2, Conv2DBNActivCall(en.conv1, x))

\* ASPPModule(nin, nout, dilations, dropout): extents preserved
ASPPModule(nin, nout) == [nin |-> nin, nout |-> nout]

ASPPModuleCall(as, x) ==
    IF ~x.ok THEN x
    ELSE IF x.ch # as.nin THEN Fail("shape")
    ELSE Shape(as.nout, x.fr, x.tm)

\* Decoder(nin, nout, ksize, stride, pad): resize h to skip, concatenate the
\* channels, convolve
Decoder(nin, nout, ksize, stride, pad) ==
    [conv1 |-> Conv2DBNActiv(nin, nout, ksize, stride, pad), nin |-> nin, nout |-> nout]

DecoderCall(de, h, skip) ==
    IF ~h.ok THEN h ELSE IF ~skip.ok THEN skip
    ELSE Conv2DBNActivCall(de.conv1, Shape(h.ch + skip.ch, skip.fr, skip.tm))

\* LSTMModule(nin_conv, nin_lstm, nout_lstm): one channel of nin_lstm bins
LSTMModule(nin_conv, nin_lstm, nout_lstm) ==
    [nin_conv |-> nin_conv, nin_lstm |-> nin_lstm, nout_lstm |-> nout_lstm]

LSTMModuleCall(ls, x) ==
    IF ~x.ok THEN x
    ELSE IF x.ch # ls.nin_conv \/ ls.nin_lstm < 1 THEN Fail("shape")
    ELSE Shape(1, ls.nin_lstm, x.tm)

\* torch.cat on extents alone, dim=1
ShapeCat(a, b) ==
    IF ~a.ok THEN a ELSE IF ~b.ok THEN b
    ELSE IF a.fr # b.fr \/ a.tm # b.tm THEN Fail("shape")
    ELSE Shape(a.ch + b.ch, a.fr, a.tm)

\* The values a block with parameters w computes from a real tensor x: every
\* output element depends on all input channels at its position and, for a
\* 3x3 kernel, on the neighbouring bin and frame.
RECURSIVE ChanSum(_, _, _, _)
ChanSum(dat, c, f, t) ==
    IF c = 0 THEN 0 ELSE dat[c][f][t] + ChanSum(dat, c - 1, f, t)

LayerData(w, x, cout, ksize) ==
    LET s == [f \in 1..x.fr |->
                 [t \in 1..x.tm |-> ChanSum(x.dat, x.ch, f, t)] \o <<>>] \o <<>>
    IN  [c \in 1..cout |-> [f \in 1..x.fr |-> [t \in 1..x.tm |->
            IF ksize = 1 THEN Wrap(w + c + s[f][t])
            ELSE Wrap(w + c + s[f][t] + s[Max(f - 1, 1)][t] + s[f][Min(t + 1, x.tm)])]]]

\* a block applied to a tensor: extents from sh, values from LayerData
Apply(sh, w, x, ksize) ==
    IF ~x.ok THEN x
    ELSE IF x.cplx THEN Fail("dtype")
    ELSE IF ~sh.ok THEN sh
    ELSE Tensor(FALSE, sh.ch, sh.fr, sh.tm, LayerData(w, x, sh.ch, ksize))

\* ----------------------------------------------------------------- BaseNet
\* BaseNet.__init__ with dec1 sized like the other decoders, the recurrent
\* channel forgotten
BaseNetNoAux(nin, nout, nin_lstm, nout_lstm) ==
    [enc1 |-> Conv2DBNActiv(nin, nout, 3, 1, 1),
     enc2 |-> Encoder(nout, nout * 2, 3, 2, 1),
     enc3 |-> Encoder(nout * 2, nout * 4, 3, 2, 1),
     enc4 |-> Encoder(nout * 4, nout * 6, 3, 2, 1),
     enc5 |-> Encoder(nout * 6, nout * 8, 3, 2, 1),
     aspp |-> ASPPModule(nout * 8, nout * 8),
     dec4 |-> Decoder(nout * (6 + 8), nout * 6, 3, 1, 1),
     dec3 |-> Decoder(nout * (4 + 6), nout * 4, 3, 1, 1),
     dec2 |-> Decoder(nout * (2 + 4), nout * 2, 3, 1, 1),
     lstm_dec2 |-> LSTMModule(nout * 2, nin_lstm, nout_lstm),
     dec1 |-> Decoder(nout * (1 + 2), nout * 1, 3, 1, 1)]

\* BaseNet.__init__
BaseNet(nin, nout, nin_lstm, nout_lstm) ==
    [enc1 |-> Conv2DBNActiv(nin, nout, 3, 1, 1),
     enc2 |-> Encoder(nout, nout * 2, 3, 2, 1),
     enc3 |-> Encoder(nout * 2, nout * 4, 3, 2, 1),
     enc4 |-> Encoder(nout * 4, nout * 6, 3, 2, 1),
     enc5 |-> Encoder(nout * 6, nout * 8, 3, 2, 1),
     aspp |-> ASPPModule(nout * 8, nout * 8),
     dec4 |-> Decoder(nout * (6 + 8), nout * 6, 3, 1, 1),
     dec3 |-> Decoder(nout * (4 + 6), nout * 4, 3, 1, 1),
     dec2 |-> Decoder(nout * (2 + 4), nout * 2, 3, 1, 1),
     lstm_dec2 |-> LSTMModule(nout * 2, nin_lstm, nout_lstm),
     dec1 |-> Decoder(nout * (1 + 2) + 1, nout * 1, 3, 1, 1)]

\* channels a decoder receives: its input h next to the skip tensor
Received(h, skip) == IF h.ok /\ skip.ok THEN h.ch + skip.ch ELSE -1

\* BaseNet.__call__: the output, and as a record of the call the channel
\* count each decoder received (-1: not reached), the frequency extent of
\* the decoder-2 output and that of the input
BaseNetCall(bn, x) ==
    LET e1 == Conv2DBNActivCall(bn.enc1, x)
        e2 == EncoderCall(bn.enc2, e1)
        e3 == EncoderCall(bn.enc3, e2)
        e4 == EncoderCall(bn.enc4, e3)
        e5 == EncoderCall(bn.enc5, e4)
        h0 == ASPPModuleCall(bn.aspp, e5)
        h4 == DecoderCall(bn.dec4, h0, e4)
        h3 == DecoderCall(bn.dec3, h4, e3)
        h2 == DecoderCall(bn.dec2, h3, e2)
        hc == ShapeCat(h2, LSTMModuleCall(bn.lstm_dec2, h2))
        h1 == DecoderCall(bn.dec1, hc, e1)
    IN  [out  |-> Apply(h1, bn.enc1.nin + bn.lstm_dec2.nin_lstm, x, 3),
         recv |-> [dec4 |-> Received(h0, e4), dec3 |-> Received(h4, e3),
                   dec2 |-> Received(h3, e2), dec1 |-> Received(hc, e1),
                   dec2_fr |-> IF h2.ok THEN h2.fr ELSE -1,
                   in_fr |-> IF x.ok THEN x.fr ELSE -1]]

\* nn.Sequential(BaseNet(...), layers.Conv2DBNActiv(...))
Sequential(bn, cv) == [base |-> bn, conv |-> cv]

SequentialCall(sq, x) ==
    LET r == BaseNetCall(sq.base, x)
    IN  [r EXCEPT !.out = Apply(Conv2DBNActivCall(sq.conv, r.out), sq.conv.nin, r.out, 1)]

\* nn.Conv2d(nin, nout, 1, bias=False), with parameters w
Conv2d(nin, nout, ksize) == Conv2DBNActiv(nin, nout, ksize, 1, 0)

Conv2dCall(cv, w, x) == Apply(Conv2DBNActivCall(cv, x), w, x, cv.ksize)

\* ------------------------------------------------------------- CascadedNet
\* self.stg1_low_band_net
Stg1LowBandNet(nin, nout, nin_lstm, nout_lstm) ==
    Sequential(BaseNet(nin, nout \div 2, nin_lstm \div 2, nout_lstm),
               Conv2DBNActiv(nout \div 2, nout \div 4, 1, 1, 0))

\* self.stg1_high_band_net given the full-band recurrent resolution
Stg1HighBandNetWide(nin, nout, nin_lstm, nout_lstm) ==
    BaseNet(nin, nout \div 4, nin_lstm, nout_lstm \div 2)

\* self.stg1_high_band_net
Stg1HighBandNet(nin, nout, nin_lstm, nout_lstm) ==
    BaseNet(nin, nout \div 4, nin_lstm \div 2, nout_lstm \div 2)

\* self.stg2_low_band_net
Stg2LowBandNet(nin, nout, nin_lstm, nout_lstm) ==
    Sequential(BaseNet(nout \div 4 + nin, nout, nin_lstm \div 2, nout_lstm),
               Conv2DBNActiv(nout, nout \div 2, 1, 1, 0))

\* self.stg2_high_band_net
Stg2HighBandNet(nin, nout, nin_lstm, nout_lstm) ==
    BaseNet(nout \div 4 + nin, nout \div 2, nin_lstm \div 2, nout_lstm \div 2)

\* self.stg3_full_band_net sized by the sum of the channels it is fed
Stg3FullBandNetSummed(nin, nout, nin_lstm, nout_lstm) ==
    BaseNet(nout \div 4 + nout \div 2 + nin, nout, nin_lstm, nout_lstm)

\* self.stg3_full_band_net
Stg3FullBandNet(nin, nout, nin_lstm, nout_lstm) ==
    BaseNet((3 * nout) \div 4 + nin, nout, nin_lstm, nout_lstm)

\* CascadedNet.__init__
CascadedNet(n_fft, hop_length, nout, nout_lstm, is_complex) ==
    LET max_bin  == n_fft \div 2
        nin_lstm == max_bin \div 2
        nin      == IF is_complex THEN 4 ELSE 2
    IN  [n_fft |-> n_fft, hop_length |-> hop_length, is_complex |-> is_complex,
         max_bin |-> max_bin,
         output_bin |-> n_fft \div 2 + 1,
         nin_lstm |-> nin_lstm,
         offset |-> Offset,
         stg1_low_band_net  |-> Stg1LowBandNet(nin, nout, nin_lstm, nout_lstm),
         stg1_high_band_net |-> Stg1HighBandNet(nin, nout, nin_lstm, nout_lstm),
         stg2_low_band_net  |-> Stg2LowBandNet(nin, nout, nin_lstm, nout_lstm),
         stg2_high_band_net |-> Stg2HighBandNet(nin, nout, nin_lstm, nout_lstm),
         stg3_full_band_net |-> Stg3FullBandNet(nin, nout, nin_lstm, nout_lstm),
         out_y |-> Conv2d(nout, nin, 1),
         out_v |-> Conv2d(nout, nin, 1)]

\* x.real, x.imag
Real(x) ==
    IF ~x.ok THEN x
    ELSE IF ~x.cplx THEN x
    ELSE Tensor(FALSE, x.ch, x.fr, x.tm,
                [c \in 1..x.ch |-> [f \in 1..x.fr |-> [t \in 1..x.tm |-> x.dat[c][f][t][1]]]])

Imag(x) ==
    IF ~x.ok THEN x
    ELSE IF ~x.cplx THEN Fail("dtype")
    ELSE Tensor(FALSE, x.ch, x.fr, x.tm,
                [c \in 1..x.ch |-> [f \in 1..x.fr |-> [t \in 1..x.tm |-> x.dat[c][f][t][2]]]])

\* torch.complex(re, im)
Complex(re, im) ==
    IF ~re.ok THEN re ELSE IF ~im.ok THEN im
    ELSE IF re.cplx \/ im.cplx THEN Fail("dtype")
    ELSE IF re.ch # im.ch \/ re.fr # im.fr \/ re.tm # im.tm THEN Fail("shape")
    ELSE Tensor(TRUE, re.ch, re.fr, re.tm,
                [c \in 1..re.ch |-> [f \in 1..re.fr |-> [t \in 1..re.tm |->
                    <<re.dat[c][f][t], im.dat[c][f][t]>>]]])

\* elementwise map over a tensor's values
Map(Op(_), cplx, x) ==
    IF ~x.ok THEN x
    ELSE Tensor(cplx, x.ch, x.fr, x.tm,
                [c \in 1..x.ch |-> [f \in 1..x.fr |-> [t \in 1..x.tm |-> Op(x.dat[c][f][t])]]])

\* torch.sigmoid on the grid: monotone, into 0..Scale
SigmoidVal(v) == ((v + ValR) * Scale) \div (2 * ValR)
Sigmoid(x) == Map(SigmoidVal, FALSE, x)

\* torch.abs of a complex value, torch.tanh of a magnitude
ISqrt(n) == CHOOSE r \in 0..n : r * r <= n /\ (r + 1) * (r + 1) > n
MagVal(z) == ISqrt(z[1] * z[1] + z[2] * z[2])
TanhVal(m) == IF m >= Scale THEN Scale - 1 ELSE Min(m, Scale - 1)
Quot(a, b) == IF a < 0 THEN -((-a) \div b) ELSE a \div b

\* CascadedNet.bounded_mask
BoundedMaskVal(z) ==
    LET mask_mag == MagVal(z)
    IN  <<Quot(TanhVal(mask_mag) * z[1], mask_mag + Eps),
          Quot(TanhVal(mask_mag) * z[2], mask_mag + Eps)>>
bounded_mask(mask) == Map(BoundedMaskVal, TRUE, mask)

\* F.pad(input, pad=(t_lo, t_hi, f_lo, f_hi), mode='replicate')
Clamp(i, lo, hi) == Max(lo, Min(i, hi))
ReplicatePad(x, t_lo, t_hi, f_lo, f_hi) ==
    IF ~x.ok THEN x
    ELSE IF x.fr < 1 \/ x.tm < 1 \/ x.fr + f_lo + f_hi < 0 \/ x.tm + t_lo + t_hi < 0
         THEN Fail("shape")
    ELSE Tensor(x.cplx, x.ch, x.fr + f_lo + f_hi, x.tm + t_lo + t_hi,
                [c \in 1..x.ch |-> [f \in 1..(x.fr + f_lo + f_hi) |->
                    [t \in 1..(x.tm + t_lo + t_hi) |->
                        x.dat[c][Clamp(f - f_lo, 1, x.fr)][Clamp(t - t_lo, 1, x.tm)]]]])

\* a * b with broadcasting: on each axis the extents agree or one of them is 1
Bcast(m, n) == m = n \/ m = 1 \/ n = 1
BExt(m, n)  == IF m = 1 THEN n ELSE m
MulVal(a, ac, b, bc) ==
    IF ~ac /\ ~bc THEN a * b
    ELSE LET p == IF ac THEN a ELSE <<a, 0>>
             q == IF bc THEN b ELSE <<b, 0>>
         IN  <<p[1] * q[1] - p[2] * q[2], p[1] * q[2] + p[2] * q[1]>>
Mul(a, b) ==
    IF ~a.ok THEN a ELSE IF ~b.ok THEN b
    ELSE IF ~(Bcast(a.ch, b.ch) /\ Bcast(a.fr, b.fr) /\ Bcast(a.tm, b.tm)) THEN Fail("shape")
    ELSE LET ch == BExt(a.ch, b.ch)
             fr == BExt(a.fr, b.fr)
             tm == BExt(a.tm, b.tm)
         IN  Tensor(a.cplx \/ b.cplx, ch, fr, tm,
                    [c \in 1..ch |-> [f \in 1..fr |-> [t \in 1..tm |->
                        MulVal(a.dat[Min(c, a.ch)][Min(f, a.fr)][Min(t, a.tm)], a.cplx,
                               b.dat[Min(c, b.ch)][Min(f, b.fr)][Min(t, b.tm)], b.cplx)]]])

\* ------------------------------------------- the statements of forward
\* torch.cat([x.real, x.imag], dim=1)
CatRealImag(xi) == ChanCat(Real(xi), Imag(xi))

\* x[:, :, :self.max_bin]
Truncate(nt, xx) == SliceFreq(xx, 0, nt.max_bin)

\* bandw rounded up, the extra bin of an odd extent going to the low band
BandwCeil(xx) == (xx.fr + 1) \div 2

\* bandw = x.size()[2] // 2
Bandw(xx) == xx.fr \div 2

\* x[:, :, :bandw] and x[:, :, bandw:]
L1In(xx) == SliceFreq(xx, 0, Bandw(xx))
H1In(xx) == SliceFreq(xx, Bandw(xx), xx.fr)

\* the projection head and its activation: out_y / out_v, then bounded_mask
\* of the recombined complex mask, or the sigmoid
RawMask(cv, w, h) == Conv2dCall(cv, w, h)

\* the activation without the complex branch: the sigmoid in either mode
ActivateSigmoidOnly(nt, raw) == IF ~raw.ok THEN raw ELSE Sigmoid(raw)

Activate(nt, raw) ==
    IF ~raw.ok THEN raw
    ELSE IF nt.is_complex
         THEN bounded_mask(Complex(SliceChan(raw, 0, 2), SliceChan(raw, 2, raw.ch)))
         ELSE Sigmoid(raw)

\* mask_y and mask_v as activated, before padding
MaskY(nt, h) == Activate(nt, RawMask(nt.out_y, 0, h))
MaskV(nt, h) == Activate(nt, RawMask(nt.out_v, 1, h))

\* torch.cat([x, aux1, aux2], dim=1)
F3In(xx, a1, a2) == ChanCat(ChanCat(xx, a1), a2)

\* the padding put at the low end of the frequency axis
PadMaskLow(nt, mask) ==
    IF ~mask.ok THEN mask ELSE ReplicatePad(mask, 0, 0, nt.output_bin - mask.fr, 0)

\* F.pad(mask, (0, 0, 0, self.output_bin - mask.size()[2]), 'replicate')
PadMask(nt, mask) ==
    IF ~mask.ok THEN mask ELSE ReplicatePad(mask, 0, 0, 0, nt.output_bin - mask.fr)

\* the trim at the left end only
TrimLeft(nt, t) == IF ~t.ok THEN t ELSE SliceTime(t, nt.offset, t.tm)

\* t[:, :, :, self.offset:-self.offset]
Trim(nt, t) == IF ~t.ok THEN t ELSE SliceTime(t, nt.offset, -nt.offset)

\* the assertion letting an empty time axis through
AssertNonNegative(a, b) == a.tm >= 0 /\ b.tm >= 0

\* assert mask_y.size()[3] > 0 and mask_v.size()[3] > 0
AssertOk(a, b) == a.tm > 0 /\ b.tm > 0

\* x truncated to its first max_bin bins and padded back to output_bin
TruncPad(nt, xi) == PadMask(nt, SliceFreq(xi, 0, nt.max_bin))

\* the product taken with the truncated-then-padded input (the mask has
\* output_bin = max_bin + 1 bins)
PredYTruncPad(xi, my) ==
    IF ~my.ok THEN my
    ELSE Mul(ReplicatePad(SliceFreq(xi, 0, my.fr - 1), 0, 0, 0, 1), my)

\* x * mask_y and x * mask_v, x being the argument of predict
PredY(xi, my) == Mul(xi, my)
PredV(xi, mv) == Mul(xi, mv)

\* ------------------------------------------------------------------- state
VARIABLES
    net,        \* the constructed CascadedNet
    xin,        \* the caller's argument x
    op,         \* entry point called: "forward", "predict_mask", "predict"
    pc,         \* the line about to run, or "returned"
    err,        \* the error raised by the statement at pc, "" if none
    x, l1_in, h1_in, l1, h1, aux1,
    l2_in, h2_in, l2, h2, aux2,
    f3_in, f3, mask_y, mask_v,      \* locals of forward
    pred_y, pred_v,                 \* locals of predict
    recv        \* per BaseNet: channels each decoder received in its call

locals == <<x, l1_in, h1_in, l1, h1, aux1, l2_in, h2_in, l2, h2, aux2,
            f3_in, f3, mask_y, mask_v, pred_y, pred_v>>
vars == <<net, xin, op, pc, err, locals, recv>>

NetNames == {"stg1_low", "stg1_high", "stg2_low", "stg2_high", "stg3_full"}
NoRecv == [dec4 |-> 0, dec3 |-> 0, dec2 |-> 0, dec1 |-> 0, dec2_fr |-> 0, in_fr |-> 0]

\* ------------------------------------------------------------------ inputs
NfftSet == {2 * k : k \in 2..MaxHalfNfft}
NoutSet == 4..MaxNout
TSet    == {1, Offset + 1} \cup ((2 * Offset)..MaxT)
FSet(n_fft) == {F \in ((n_fft \div 2) - 1)..((n_fft \div 2) + 2) : F >= 1}

InputVal(c, f, t) == (c + 2 * f + t) % (ValR + 1)
Input(cplx, ch, fr, tm) ==
    Tensor(cplx, ch, fr, tm,
           [c \in 1..ch |-> [f \in 1..fr |-> [t \in 1..tm |->
               IF cplx THEN <<InputVal(c, f, t), Wrap(c + f + 2 * t)>>
                       ELSE InputVal(c, f, t)]]])

Init ==
    /\ \E n_fft \in NfftSet, nout \in NoutSet, is_complex \in BOOLEAN :
          net = CascadedNet(n_fft, n_fft \div 4, nout, DefaultNoutLstm, is_complex)
    /\ \E ch \in {2, 4}, fr \in FSet(net.n_fft), tm \in TSet :
          xin = Input(net.is_complex, ch, fr, tm)
    /\ op = ""
    /\ pc = "call"
    /\ err = ""
    /\ x = None /\ l1_in = None /\ h1_in = None /\ l1 = None /\ h1 = None
    /\ aux1 = None /\ l2_in = None /\ h2_in = None /\ l2 = None /\ h2 = None
    /\ aux2 = None /\ f3_in = None /\ f3 = None /\ mask_y = None /\ mask_v = None
    /\ pred_y = None /\ pred_v = None
    /\ recv = [n \in NetNames |-> NoRecv]

\* ----------------------------------------------------------------- actions
\* a caller enters forward, predict_mask or predict; each begins with forward
Call(o) ==
    /\ pc = "call"
    /\ op' = o
    /\ pc' = "l83"
    /\ UNCHANGED <<net, xin, err, locals, recv>>

\* l.83-84: if self.is_complex: x = torch.cat([x.real, x.imag], dim=1)
DoComplex(nxt) ==
    /\ \E v \in {IF net.is_complex THEN CatRealImag(xin) ELSE xin} :
           /\ x' = IF v.ok THEN v ELSE x
           /\ pc' = IF v.ok THEN nxt ELSE pc
           /\ err' = IF v.ok THEN err ELSE v.why
    /\ UNCHANGED <<net, xin, op, l1_in, h1_in, l1, h1, aux1, l2_in, h2_in, l2, h2,
                 aux2, f3_in, f3, mask_y, mask_v, pred_y, pred_v, recv>>

\* l.86: x = x[:, :, :self.max_bin]
DoTruncate(nxt) ==
    /\ \E v \in {Truncate(net, x)} :
           /\ x' = IF v.ok THEN v ELSE x
           /\ pc' = IF v.ok THEN nxt ELSE pc
           /\ err' = IF v.ok THEN err ELSE v.why
    /\ UNCHANGED <<net, xin, op, l1_in, h1_in, l1, h1, aux1, l2_in, h2_in, l2, h2,
                 aux2, f3_in, f3, mask_y, mask_v, pred_y, pred_v, recv>>

\* l.88-90: bandw, l1_in, h1_in
DoSplit(nxt) ==
    /\ \E a \in {L1In(x)}, b \in {H1In(x)} :
           /\ l1_in' = IF a.ok THEN a ELSE l1_in
           /\ h1_in' = IF a.ok /\ b.ok THEN b ELSE h1_in
           /\ pc' = IF a.ok /\ b.ok THEN nxt ELSE pc
           /\ err' = IF ~a.ok THEN a.why ELSE IF ~b.ok THEN b.why ELSE err
    /\ UNCHANGED <<net, xin, op, x, l1, h1, aux1, l2_in, h2_in, l2, h2, aux2, f3_in,
                 f3, mask_y, mask_v, pred_y, pred_v, recv>>

\* l.91: l1 = self.stg1_low_band_net(l1_in)
DoStg1Low(nxt) ==
    /\ \E r \in {SequentialCall(net.stg1_low_band_net, l1_in)} :
           /\ l1' = IF r.out.ok THEN r.out ELSE l1
           /\ recv' = [recv EXCEPT !["stg1_low"] = r.recv]
           /\ pc' = IF r.out.ok THEN nxt ELSE pc
           /\ err' = IF r.out.ok THEN err ELSE r.out.why
    /\ UNCHANGED <<net, xin, op, x, l1_in, h1_in, h1, aux1, l2_in, h2_in, l2, h2,
                 aux2, f3_in, f3, mask_y, mask_v, pred_y, pred_v>>

\* the high-band net leaving its output in the low band's variable as well
DoStg1HighShared(nxt) ==
    /\ \E r \in {BaseNetCall(net.stg1_high_band_net, h1_in)} :
           /\ h1' = IF r.out.ok THEN r.out ELSE h1
           /\ l1' = IF r.out.ok /\ l1.ok THEN r.out ELSE l1
           /\ recv' = [recv EXCEPT !["stg1_high"] = r.recv]
           /\ pc' = IF r.out.ok THEN nxt ELSE pc
           /\ err' = IF r.out.ok THEN err ELSE r.out.why
    /\ UNCHANGED <<net, xin, op, x, l1_in, h1_in, aux1, l2_in, h2_in, l2, h2, aux2,
                   f3_in, f3, mask_y, mask_v, pred_y, pred_v>>

\* l.92: h1 = self.stg1_high_band_net(h1_in)
DoStg1High(nxt) ==
    /\ \E r \in {BaseNetCall(net.stg1_high_band_net, h1_in)} :
           /\ h1' = IF r.out.ok THEN r.out ELSE h1
           /\ recv' = [recv EXCEPT !["stg1_high"] = r.recv]
           /\ pc' = IF r.out.ok THEN nxt ELSE pc
           /\ err' = IF r.out.ok THEN err ELSE r.out.why
    /\ UNCHANGED <<net, xin, op, x, l1_in, h1_in, l1, aux1, l2_in, h2_in, l2, h2,
                 aux2, f3_in, f3, mask_y, mask_v, pred_y, pred_v>>

\* l.93: aux1 = torch.cat([l1, h1], dim=2)
DoAux1(nxt) ==
    /\ \E v \in {FreqCat(l1, h1)} :
           /\ aux1' = IF v.ok THEN v ELSE aux1
           /\ pc' = IF v.ok THEN nxt ELSE pc
           /\ err' = IF v.ok THEN err ELSE v.why
    /\ UNCHANGED <<net, xin, op, x, l1_in, h1_in, l1, h1, l2_in, h2_in, l2, h2,
                 aux2, f3_in, f3, mask_y, mask_v, pred_y, pred_v, recv>>

\* l.95: l2_in = torch.cat([l1_in, l1], dim=1)
DoStg2LowIn(nxt) ==
    /\ \E v \in {ChanCat(l1_in, l1)} :
           /\ l2_in' = IF v.ok THEN v ELSE l2_in
           /\ pc' = IF v.ok THEN nxt ELSE pc
           /\ err' = IF v.ok THEN err ELSE v.why
    /\ UNCHANGED <<net, xin, op, x, l1_in, h1_in, l1, h1, aux1, h2_in, l2, h2, aux2,
                 f3_in, f3, mask_y, mask_v, pred_y, pred_v, recv>>

\* l.96: h2_in = torch.cat([h1_in, h1], dim=1)
DoStg2HighIn(nxt) ==
    /\ \E v \in {ChanCat(h1_in, h1)} :
           /\ h2_in' = IF v.ok THEN v ELSE h2_in
           /\ pc' = IF v.ok THEN nxt ELSE pc
           /\ err' = IF v.ok THEN err ELSE v.why
    /\ UNCHANGED <<net, xin, op, x, l1_in, h1_in, l1, h1, aux1, l2_in, l2, h2, aux2,
                 f3_in, f3, mask_y, mask_v, pred_y, pred_v, recv>>

\* l.97: l2 = self.stg2_low_band_net(l2_in)
DoStg2Low(nxt) ==
    /\ \E r \in {SequentialCall(net.stg2_low_band_net, l2_in)} :
           /\ l2' = IF r.out.ok THEN r.out ELSE l2
           /\ recv' = [recv EXCEPT !["stg2_low"] = r.recv]
           /\ pc' = IF r.out.ok THEN nxt ELSE pc
           /\ err' = IF r.out.ok THEN err ELSE r.out.why
    /\ UNCHANGED <<net, xin, op, x, l1_in, h1_in, l1, h1, aux1, l2_in, h2_in, h2,
                 aux2, f3_in, f3, mask_y, mask_v, pred_y, pred_v>>

\* l.98: h2 = self.stg2_high_band_net(h2_in)
DoStg2High(nxt) ==
    /\ \E r \in {BaseNetCall(net.stg2_high_band_net, h2_in)} :
           /\ h2' = IF r.out.ok THEN r.out ELSE h2
           /\ recv' = [recv EXCEPT !["stg2_high"] = r.recv]
           /\ pc' = IF r.out.ok THEN nxt ELSE pc
           /\ err' = IF r.out.ok THEN err ELSE r.out.why
    /\ UNCHANGED <<net, xin, op, x, l1_in, h1_in, l1, h1, aux1, l2_in, h2_in, l2,
                 aux2, f3_in, f3, mask_y, mask_v, pred_y, pred_v>>

\* l.99: aux2 = torch.cat([l2, h2], dim=2)
DoAux2(nxt) ==
    /\ \E v \in {FreqCat(l2, h2)} :
           /\ aux2' = IF v.ok THEN v ELSE aux2
           /\ pc' = IF v.ok THEN nxt ELSE pc
           /\ err' = IF v.ok THEN err ELSE v.why
    /\ UNCHANGED <<net, xin, op, x, l1_in, h1_in, l1, h1, aux1, l2_in, h2_in, l2,
                 h2, f3_in, f3, mask_y, mask_v, pred_y, pred_v, recv>>

\* l.101: f3_in = torch.cat([x, aux1, aux2], dim=1)
DoStg3In(nxt) ==
    /\ \E v \in {F3In(x, aux1, aux2)} :
           /\ f3_in' = IF v.ok THEN v ELSE f3_in
           /\ pc' = IF v.ok THEN nxt ELSE pc
           /\ err' = IF v.ok THEN err ELSE v.why
    /\ UNCHANGED <<net, xin, op, x, l1_in, h1_in, l1, h1, aux1, l2_in, h2_in, l2,
                 h2, aux2, f3, mask_y, mask_v, pred_y, pred_v, recv>>

\* l.102: f3 = self.stg3_full_band_net(f3_in)
DoStg3(nxt) ==
    /\ \E r \in {BaseNetCall(net.stg3_full_band_net, f3_in)} :
           /\ f3' = IF r.out.ok THEN r.out ELSE f3
           /\ recv' = [recv EXCEPT !["stg3_full"] = r.recv]
           /\ pc' = IF r.out.ok THEN nxt ELSE pc
           /\ err' = IF r.out.ok THEN err ELSE r.out.why
    /\ UNCHANGED <<net, xin, op, x, l1_in, h1_in, l1, h1, aux1, l2_in, h2_in, l2,
                 h2, aux2, f3_in, mask_y, mask_v, pred_y, pred_v>>

\* l.104-113: mask_y, mask_v from out_y, out_v and their activation
DoHeads(nxt) ==
    /\ \E a \in {MaskY(net, f3)}, b \in {MaskV(net, f3)} :
           /\ mask_y' = IF a.ok THEN a ELSE mask_y
           /\ mask_v' = IF a.ok /\ b.ok THEN b ELSE mask_v
           /\ pc' = IF a.ok /\ b.ok THEN nxt ELSE pc
           /\ err' = IF ~a.ok THEN a.why ELSE IF ~b.ok THEN b.why ELSE err
    /\ UNCHANGED <<net, xin, op, x, l1_in, h1_in, l1, h1, aux1, l2_in, h2_in, l2,
                 h2, aux2, f3_in, f3, pred_y, pred_v, recv>>

\* l.115-124: both masks padded to output_bin
DoPad(nxt) ==
    /\ \E a \in {PadMask(net, mask_y)}, b \in {PadMask(net, mask_v)} :
           /\ mask_y' = IF a.ok THEN a ELSE mask_y
           /\ mask_v' = IF a.ok /\ b.ok THEN b ELSE mask_v
           /\ pc' = IF a.ok /\ b.ok THEN nxt ELSE pc
           /\ err' = IF ~a.ok THEN a.why ELSE IF ~b.ok THEN b.why ELSE err
    /\ UNCHANGED <<net, xin, op, x, l1_in, h1_in, l1, h1, aux1, l2_in, h2_in, l2,
                 h2, aux2, f3_in, f3, pred_y, pred_v, recv>>

\* l.145-146: pred_y = x * mask_y; pred_v = x * mask_v
DoMul(nxt) ==
    /\ \E a \in {PredY(xin, mask_y)}, b \in {PredV(xin, mask_v)} :
           /\ pred_y' = IF a.ok THEN a ELSE pred_y
           /\ pred_v' = IF a.ok /\ b.ok THEN b ELSE pred_v
           /\ pc' = IF a.ok /\ b.ok THEN nxt ELSE pc
           /\ err' = IF ~a.ok THEN a.why ELSE IF ~b.ok THEN b.why ELSE err
    /\ UNCHANGED <<net, xin, op, x, l1_in, h1_in, l1, h1, aux1, l2_in, h2_in, l2,
                 h2, aux2, f3_in, f3, mask_y, mask_v, recv>>

\* The statements in program order: each runs at its line and moves to the next.
FwdComplex == pc = "l83" /\ err = "" /\ DoComplex("l86")
FwdTruncate == pc = "l86" /\ err = "" /\ DoTruncate("l88")
FwdSplit == pc = "l88" /\ err = "" /\ DoSplit("l91")
Stg1Low == pc = "l91" /\ err = "" /\ DoStg1Low("l92")
Stg1High == pc = "l92" /\ err = "" /\ DoStg1High("l93")
FwdAux1 == pc = "l93" /\ err = "" /\ DoAux1("l95")
Stg2LowIn == pc = "l95" /\ err = "" /\ DoStg2LowIn("l96")
Stg2HighIn == pc = "l96" /\ err = "" /\ DoStg2HighIn("l97")
Stg2Low == pc = "l97" /\ err = "" /\ DoStg2Low("l98")
Stg2High == pc = "l98" /\ err = "" /\ DoStg2High("l99")
FwdAux2 == pc = "l99" /\ err = "" /\ DoAux2("l101")
Stg3In == pc = "l101" /\ err = "" /\ DoStg3In("l102")
Stg3 == pc = "l102" /\ err = "" /\ DoStg3("l104")
FwdHeads == pc = "l104" /\ err = "" /\ DoHeads("l115")
FwdPad == pc = "l115" /\ err = "" /\ DoPad("l126")
PredictMul == pc = "l145" /\ err = "" /\ DoMul("l148")

\* l.126: return mask_y, mask_v -- to the caller, or into predict_mask / predict
FwdReturn ==
    /\ pc = "l126" /\ err = ""
    /\ pc' = CASE op = "forward" -> "returned"
               [] op = "predict_mask" -> "l136"
               [] op = "predict" -> "l145"
    /\ UNCHANGED <<net, xin, op, err, locals, recv>>

\* l.136-141: trim both masks by offset, assert a positive time extent, return
PredictMaskTrim ==
    /\ pc = "l136" /\ err = ""
    /\ IF net.offset > 0
       THEN \E a \in {Trim(net, mask_y)}, b \in {Trim(net, mask_v)} :
                /\ mask_y' = a
                /\ mask_v' = b
                /\ IF AssertOk(a, b)
                   THEN pc' = "returned" /\ UNCHANGED err
                   ELSE err' = "assert" /\ UNCHANGED pc
       ELSE pc' = "returned" /\ UNCHANGED <<err, mask_y, mask_v>>
    /\ UNCHANGED <<net, xin, op, x, l1_in, h1_in, l1, h1, aux1, l2_in, h2_in, l2, h2,
                   aux2, f3_in, f3, pred_y, pred_v, recv>>

\* l.148-153: trim both products by offset, assert a positive time extent, return
PredictTrim ==
    /\ pc = "l148" /\ err = ""
    /\ IF net.offset > 0
       THEN \E a \in {Trim(net, pred_y)}, b \in {Trim(net, pred_v)} :
                /\ pred_y' = a
                /\ pred_v' = b
                /\ IF AssertOk(a, b)
                   THEN pc' = "returned" /\ UNCHANGED err
                   ELSE err' = "assert" /\ UNCHANGED pc
       ELSE pc' = "returned" /\ UNCHANGED <<err, pred_y, pred_v>>
    /\ UNCHANGED <<net, xin, op, x, l1_in, h1_in, l1, h1, aux1, l2_in, h2_in, l2, h2,
                   aux2, f3_in, f3, mask_y, mask_v, recv>>

Next ==
    \/ \E o \in {"forward", "predict_mask", "predict"} : Call(o)
    \/ FwdComplex \/ FwdTruncate \/ FwdSplit
    \/ Stg1Low \/ Stg1High \/ FwdAux1
    \/ Stg2LowIn \/ Stg2HighIn \/ Stg2Low \/ Stg2High \/ FwdAux2
    \/ Stg3In \/ Stg3 \/ FwdHeads \/ FwdPad \/ FwdReturn
    \/ PredictMaskTrim \/ PredictMul \/ PredictTrim

Spec == Init /\ [][Next]_vars

\* ------------------------------------------------------------ vocabulary
Nout == net.out_y.nin          \* the nout the net was constructed with
Nin  == net.out_y.nout         \* 4 if is_complex else 2

ForwardLines == {"l83", "l86", "l88", "l91", "l92", "l93", "l95", "l96", "l97",
                 "l98", "l99", "l101", "l102", "l104", "l115", "l126"}

\* the construction passes every stage's shape checks (C9, C10)
ShapeConsistent == net.max_bin % 4 = 0 /\ Nout % 4 # 3

\* an input of the documented layout: two channels of the net's dtype and
\* at least max_bin frequency bins
ValidInput == xin.ch = 2 /\ xin.cplx = net.is_complex /\ xin.fr >= net.max_bin

Returned(o) == pc = "returned" /\ op = o
ForwardDone == pc = "l126" /\ err = ""

\* ---------------------------------------------------------------------- C1
\* C1 as stated: for an input with F >= max_bin, the masks forward returns
\* have 2 channels in magnitude mode and 4 in complex mode, output_bin
\* frequency bins and the input's T frames.
C1_Original ==
    (ForwardDone /\ xin.fr >= net.max_bin) =>
        \A m \in {mask_y, mask_v} :
            /\ m.ch = (IF net.is_complex THEN 4 ELSE 2)
            /\ m.fr = net.output_bin
            /\ m.tm = xin.tm

\* C1 amended: the masks have the channel count of the input tensor itself,
\* 2 in both modes (complex masks in complex mode), output_bin frequency bins
\* whatever F >= max_bin is, and T frames; and forward does return them for
\* every valid input once the construction is shape-consistent.
C1_Amended ==
    /\ (ForwardDone /\ xin.fr >= net.max_bin) =>
          \A m \in {mask_y, mask_v} :
              /\ m.ch = xin.ch /\ m.ch = 2
              /\ m.cplx = net.is_complex
              /\ m.fr = net.output_bin
              /\ m.tm = xin.tm
    /\ (ShapeConsistent /\ ValidInput /\ pc \in ForwardLines) => err = ""

C1_Witness ==
    /\ ForwardDone /\ op = "forward"
    /\ net.is_complex /\ xin.fr > net.output_bin
    /\ mask_y.ok /\ mask_v.ok

\* ---------------------------------------------------------------------- C2
\* the tensors an entry point leaves as its result
ResultY == IF op = "predict" THEN pred_y ELSE mask_y
ResultV == IF op = "predict" THEN pred_v ELSE mask_v

TrimmedShape(r) ==
    /\ r.ok
    /\ r.tm = xin.tm - 2 * Offset
    /\ r.ch = 2
    /\ r.fr = net.output_bin

\* C2 as stated: for every valid input with T > 2*offset both predict_mask and
\* predict return, and what they return has T - 2*offset frames and the
\* channel and frequency extents of forward's masks.
C2_Original ==
    (/\ ShapeConsistent /\ ValidInput /\ xin.tm > 2 * Offset
     /\ op \in {"predict_mask", "predict"}) =>
        /\ err = ""
        /\ pc = "returned" => TrimmedShape(ResultY) /\ TrimmedShape(ResultV)

\* C2 amended: predict_mask returns for every such input; predict returns for
\* those with F = output_bin and raises a shape error at x * mask_y for any
\* other F; whatever either returns has T - 2*offset frames, 2 channels and
\* output_bin bins.
C2_Amended ==
    /\ (/\ ShapeConsistent /\ ValidInput /\ xin.tm > 2 * Offset
        /\ \/ op = "predict_mask"
           \/ op = "predict" /\ xin.fr = net.output_bin) =>
            /\ err = ""
            /\ pc = "returned" => TrimmedShape(ResultY) /\ TrimmedShape(ResultV)
    /\ (ValidInput /\ op = "predict" /\ xin.fr # net.output_bin) =>
            /\ pc \notin {"l148", "returned"}
            /\ pc = "l145" /\ err # "" => err = "shape"
    /\ (pc = "returned" /\ op \in {"predict_mask", "predict"} /\ xin.fr >= net.max_bin) =>
            TrimmedShape(ResultY) /\ TrimmedShape(ResultV)

C2_Witness ==
    /\ Returned("predict") /\ xin.tm > 2 * Offset
    /\ pred_y.tm = xin.tm - 2 * Offset /\ pred_y.fr = mask_y.fr

C4_Original ==
    Returned("predict") =>
        /\ pred_y = Mul(Trim(net, TruncPad(net, xin)), Trim(net, mask_y))
        /\ pred_v = Mul(Trim(net, TruncPad(net, xin)), Trim(net, mask_v))

\* C4 amended: what predict returns is the elementwise product of the input
\* itself, all of its output_bin bins untouched, with what predict_mask
\* returns, both trimmed by offset.
C4_Amended ==
    Returned("predict") =>
        /\ pred_y = Mul(Trim(net, xin), Trim(net, mask_y))
        /\ pred_v = Mul(Trim(net, xin), Trim(net, mask_v))
        /\ pred_y.tm = Trim(net, mask_y).tm /\ pred_v.tm = Trim(net, mask_v).tm
        /\ xin.fr = net.output_bin

C4_Witness ==
    /\ Returned("predict") /\ pred_y.ok /\ pred_v.ok /\ pred_y.tm >= 1
    /\ xin.dat[1][net.output_bin] # xin.dat[1][net.max_bin]

\* ---------------------------------------------------------------------- C5
\* C5: the low band is bins [0, F'//2) of the truncated input and the high
\* band bins [F'//2, F'): together, in order, they are the truncated input,
\* the high band is the longer one by one bin when F' is odd, and aux1 has
\* F' bins again (F' = max_bin when F >= max_bin).
C5_Theorem ==
    /\ (l1_in.ok /\ h1_in.ok) =>
          /\ l1_in.fr = x.fr \div 2
          /\ h1_in.fr = x.fr - (x.fr \div 2)
          /\ h1_in.fr - l1_in.fr = x.fr % 2
          /\ FreqCat(l1_in, h1_in) = x
          /\ xin.fr >= net.max_bin => x.fr = net.max_bin
    /\ aux1.ok =>
          /\ aux1.fr = x.fr
          /\ l1.fr = l1_in.fr /\ h1.fr = h1_in.fr

C5_Witness == aux1.ok /\ x.fr % 2 = 1 /\ h1_in.fr = l1_in.fr + 1

\* ---------------------------------------------------------------------- C6
BaseOf(n) ==
    CASE n = "stg1_low"  -> net.stg1_low_band_net.base
      [] n = "stg1_high" -> net.stg1_high_band_net
      [] n = "stg2_low"  -> net.stg2_low_band_net.base
      [] n = "stg2_high" -> net.stg2_high_band_net
      [] n = "stg3_full" -> net.stg3_full_band_net

\* C6: in every BaseNet call each decoder received as many channels as it was
\* constructed for: 8w + 6w at dec4, 6w + 4w at dec3, 4w + 2w at dec2 and
\* 2w + 1 + w at dec1, w being the net's base width; only dec1 has the + 1.
C6_Theorem ==
    \A n \in NetNames :
        LET bn == BaseOf(n)
            w  == bn.enc1.nout
            r  == recv[n]
        IN  /\ r.dec4 > 0 => r.dec4 = bn.dec4.nin /\ r.dec4 = 8 * w + 6 * w
            /\ r.dec3 > 0 => r.dec3 = bn.dec3.nin /\ r.dec3 = 6 * w + 4 * w
            /\ r.dec2 > 0 => r.dec2 = bn.dec2.nin /\ r.dec2 = 4 * w + 2 * w
            /\ r.dec1 > 0 => r.dec1 = bn.dec1.nin /\ r.dec1 = 2 * w + 1 + w
            /\ bn.aspp.nout = 8 * w /\ bn.enc4.nout = 6 * w /\ bn.enc3.nout = 4 * w
            /\ bn.enc2.nout = 2 * w /\ bn.lstm_dec2.nin_conv = bn.dec2.nout

C6_Witness ==
    /\ f3.ok
    /\ \A n \in NetNames : recv[n].dec1 > 0 /\ recv[n].dec4 > 0

\* ---------------------------------------------------------------------- C8
\* m is a with its last row repeated up to output_bin bins, nothing else
PaddedFrom(m, a) ==
    /\ m.ok /\ a.ok
    /\ m.ch = a.ch /\ m.tm = a.tm /\ m.cplx = a.cplx
    /\ a.fr = x.fr /\ m.fr = net.output_bin
    /\ \A c \in 1..m.ch : \A f \in 1..m.fr : m.dat[c][f] = a.dat[c][Min(f, a.fr)]

InUnit(m) ==
    \A c \in 1..m.ch : \A f \in 1..m.fr : \A t \in 1..m.tm : m.dat[c][f][t] \in 0..Scale

\* C8: each mask forward returns is the activated mask with its last row
\* repeated at the high end of the frequency axis up to output_bin bins; the
\* rows below and the time axis are as they were, so a magnitude mask stays
\* within [0, 1].
C8_Theorem ==
    ForwardDone =>
        /\ PaddedFrom(mask_y, MaskY(net, f3))
        /\ PaddedFrom(mask_v, MaskV(net, f3))
        /\ ~net.is_complex => InUnit(mask_y) /\ InUnit(mask_v)

C8_Witness ==
    /\ ForwardDone /\ ~net.is_complex
    /\ mask_y.fr = x.fr + 1
    /\ mask_y.dat[1][mask_y.fr] = mask_y.dat[1][x.fr]
    /\ \E f \in 1..x.fr : mask_y.dat[1][f] # mask_y.dat[1][x.fr]

\* ---------------------------------------------------------------------- C9
\* C9: stage 3 is constructed for 3*nout//4 + nin channels and fed
\* nin + nout//4 + nout//2; the two agree unless nout mod 4 = 3, where the
\* construction asks for one more; the stage-2 nets are constructed for the
\* nout//4 + nin channels they are fed.
C9_Theorem ==
    LET built == net.stg3_full_band_net.enc1.nin
        fed   == Nin + (Nout \div 4) + (Nout \div 2)
    IN  /\ built = (3 * Nout) \div 4 + Nin
        /\ f3_in.ok => f3_in.ch = fed
        /\ Nout % 4 # 3 => built = fed
        /\ Nout % 4 = 3 => built = fed + 1
        /\ f3.ok => Nout % 4 # 3
        /\ net.stg2_low_band_net.base.enc1.nin = (Nout \div 4) + Nin
        /\ net.stg2_high_band_net.enc1.nin = (Nout \div 4) + Nin
        /\ l2_in.ok => l2_in.ch = net.stg2_low_band_net.base.enc1.nin
        /\ h2_in.ok => h2_in.ch = net.stg2_high_band_net.enc1.nin

C9_Witness ==
    /\ Nout % 4 = 3 /\ f3_in.ok
    /\ pc = "l102" /\ err = "shape"
    /\ f3_in.ch + 1 = net.stg3_full_band_net.enc1.nin

\* --------------------------------------------------------------------- C10
\* the frequency extent of the input a net gets when F >= max_bin
BandIn(n) ==
    CASE n \in {"stg1_low", "stg2_low"}   -> net.max_bin \div 2
      [] n \in {"stg1_high", "stg2_high"} -> net.max_bin - (net.max_bin \div 2)
      [] n = "stg3_full"                  -> net.max_bin

LstmFits(n) == BaseOf(n).lstm_dec2.nin_lstm = CeilDiv(BandIn(n), 2)

\* C10: the band nets are constructed with (max_bin//2)//2 recurrent bins and
\* the full-band net with max_bin//2; a net's decoder-2 output has the ceiling
\* of half its input's bins; for F >= max_bin the two agree in all five nets
\* exactly when max_bin is a multiple of 4, and only then does forward get
\* through every sub-network.
C10_Theorem ==
    /\ \A n \in NetNames \ {"stg3_full"} :
          BaseOf(n).lstm_dec2.nin_lstm = (net.max_bin \div 2) \div 2
    /\ BaseOf("stg3_full").lstm_dec2.nin_lstm = net.max_bin \div 2
    /\ (\A n \in NetNames : LstmFits(n)) <=> (net.max_bin % 4 = 0)
    /\ \A n \in NetNames :
          /\ recv[n].dec2_fr > 0 => recv[n].dec2_fr = CeilDiv(recv[n].in_fr, 2)
          /\ (xin.fr >= net.max_bin /\ recv[n].in_fr > 0) => recv[n].in_fr = BandIn(n)
          /\ (xin.fr >= net.max_bin /\ recv[n].dec2_fr > 0) =>
                (recv[n].dec1 > 0 <=> LstmFits(n))
    /\ (xin.fr >= net.max_bin /\ f3.ok) => net.max_bin % 4 = 0

C10_Witness ==
    /\ xin.fr >= net.max_bin /\ net.max_bin % 4 = 1
    /\ pc = "l92" /\ err = "shape"
    /\ recv["stg1_low"].dec1 > 0
    /\ recv["stg1_high"].dec2_fr = BaseOf("stg1_high").lstm_dec2.nin_lstm + 1

\* ---------------------------------------------- concurrent stage evaluation
\* forward with the statements of lines 91-102 as tasks that a scheduler may
\* run in any order in which each task finds its operands computed.
InitPar ==
    /\ \E n_fft \in NfftSet, nout \in NoutSet, is_complex \in BOOLEAN :
          net = CascadedNet(n_fft, n_fft \div 4, nout, DefaultNoutLstm, is_complex)
    /\ \E ch \in {2, 4}, fr \in FSet(net.n_fft), tm \in 1..MaxTPar :
          xin = Input(net.is_complex, ch, fr, tm)
    /\ op = ""
    /\ pc = "call"
    /\ err = ""
    /\ x = None /\ l1_in = None /\ h1_in = None /\ l1 = None /\ h1 = None
    /\ aux1 = None /\ l2_in = None /\ h2_in = None /\ l2 = None /\ h2 = None
    /\ aux2 = None /\ f3_in = None /\ f3 = None /\ mask_y = None /\ mask_v = None
    /\ pred_y = None /\ pred_v = None
    /\ recv = [n \in NetNames |-> NoRecv]

Staging == pc = "l91" /\ err = ""

ParStg1Low    == Staging /\ l1_in.ok /\ ~l1.ok /\ DoStg1Low("l91")
ParStg1High   == Staging /\ h1_in.ok /\ ~h1.ok /\ DoStg1High("l91")
ParAux1       == Staging /\ l1.ok /\ h1.ok /\ ~aux1.ok /\ DoAux1("l91")
ParStg2LowIn  == Staging /\ l1_in.ok /\ l1.ok /\ ~l2_in.ok /\ DoStg2LowIn("l91")
ParStg2HighIn == Staging /\ h1_in.ok /\ h1.ok /\ ~h2_in.ok /\ DoStg2HighIn("l91")
ParStg2Low    == Staging /\ l2_in.ok /\ ~l2.ok /\ DoStg2Low("l91")
ParStg2High   == Staging /\ h2_in.ok /\ ~h2.ok /\ DoStg2High("l91")
ParAux2       == Staging /\ l2.ok /\ h2.ok /\ ~aux2.ok /\ DoAux2("l91")
ParStg3In     == Staging /\ x.ok /\ aux1.ok /\ aux2.ok /\ ~f3_in.ok /\ DoStg3In("l91")
ParStg3       == Staging /\ f3_in.ok /\ ~f3.ok /\ DoStg3("l104")

NextPar ==
    \/ Call("forward")
    \/ FwdComplex \/ FwdTruncate \/ FwdSplit
    \/ ParStg1Low \/ ParStg1High \/ ParAux1
    \/ ParStg2LowIn \/ ParStg2HighIn \/ ParStg2Low \/ ParStg2High \/ ParAux2
    \/ ParStg3In \/ ParStg3
    \/ FwdHeads \/ FwdPad \/ FwdReturn

ParSpec == InitPar /\ [][NextPar]_vars

\* ---------------------------------------------------------------------- C7
\* forward as the code orders it, low band before high band, stage by
\* stage, each value computed once from the ones before it
SameAsSequential ==
    \E sx \in {Truncate(net, IF net.is_complex THEN CatRealImag(xin) ELSE xin)} :
    \E sl1 \in {SequentialCall(net.stg1_low_band_net, L1In(sx)).out} :
    \E sh1 \in {BaseNetCall(net.stg1_high_band_net, H1In(sx)).out} :
    \E saux1 \in {FreqCat(sl1, sh1)} :
    \E sl2 \in {SequentialCall(net.stg2_low_band_net, ChanCat(L1In(sx), sl1)).out} :
    \E sh2 \in {BaseNetCall(net.stg2_high_band_net, ChanCat(H1In(sx), sh1)).out} :
    \E saux2 \in {FreqCat(sl2, sh2)} :
    \E sf3 \in {BaseNetCall(net.stg3_full_band_net, F3In(sx, saux1, saux2)).out} :
        /\ l1.ok => l1 = sl1
        /\ h1.ok => h1 = sh1
        /\ aux1.ok => aux1 = saux1
        /\ l2.ok => l2 = sl2
        /\ h2.ok => h2 = sh2
        /\ aux2.ok => aux2 = saux2
        /\ f3.ok => f3 = sf3
        /\ ForwardDone =>
              /\ mask_y = PadMask(net, MaskY(net, sf3))
              /\ mask_v = PadMask(net, MaskV(net, sf3))
        /\ (pc = "l91" /\ err # "") => ~sf3.ok

lowBand  == <<l1_in, l1, l2_in, l2>>
highBand == <<h1_in, h1, h2_in, h2>>

\* C7: whatever order the stage tasks run in, every tensor they compute is
\* the one the order of the code computes, and no task of one band changes a
\* variable of the other band or an operand it has read.
C7_Theorem ==
    /\ []SameAsSequential
    /\ [][/\ (ParStg1Low \/ ParStg2LowIn \/ ParStg2Low) => UNCHANGED <<highBand, x>>
          /\ (ParStg1High \/ ParStg2HighIn \/ ParStg2High) => UNCHANGED <<lowBand, x>>
          /\ ParStg1Low => UNCHANGED <<l1_in, l2_in, l2>>
          /\ ParStg1High => UNCHANGED <<h1_in, h2_in, h2>>
          /\ ParStg2Low => UNCHANGED <<l1_in, l1, l2_in>>
          /\ ParStg2High => UNCHANGED <<h1_in, h1, h2_in>>]_vars

\* the high band ran both its stages before the low band ran any
C7_Witness ==
    /\ Staging /\ h2.ok /\ ~l1.ok /\ l1_in.ok

====
